---- MODULE Spec2Model ----
(***************************************************************************)
(* State-machine model of the order pipeline of stars-trader-bot           *)
(* (src/Stars.py): the transactions ledger, the NOWPayments IPN webhook    *)
(* handler (one Flask thread per request) and the chat handler that reads  *)
(* the recipient username and drives the Fragments purchase.               *)
(*                                                                         *)
(* Every SQL statement is one atomic step (each is followed by commit()).  *)
(* The statements of one handler are separate steps, so that handlers of   *)
(* different threads interleave between a SELECT and the UPDATE after it.  *)
(* Chat updates are dispatched by Application.run_polling() one at a time  *)
(* (src/Stars.py:394-418 builds the Application without concurrent         *)
(* updates), so one chat handler is in progress at most; IPN requests are  *)
(* served by independent threads.                                          *)
(***************************************************************************)
EXTENDS Integers, Sequences, FiniteSets, TLC

\* ---------------------------------------------------------------- bounds
NumIpnThreads == 2
MaxAmount == 2
MaxSupply == 3
MaxClock == 1

IpnThreads == 1..NumIpnThreads
OrderIds == {"o1", "o2"}
UserIds == {7, 8}
InvoiceIds == {"inv1"}
Amounts == 1..MaxAmount
Supplies == 0..MaxSupply

\* --------------------------------------------------------- option values
None == <<>>
Some(x) == <<x>>

\* ------------------------------------------------------------ raw bodies
\* A raw request body is a byte string; the model numbers the byte strings
\* it draws (RawBodies) and BodyText gives what each one holds.
\*   syntax "object" : a JSON object with the two keys read by the handler
\*                     (a key that is missing reads as "None" with dict.get)
\*   syntax "array"  : valid JSON that is no object (data.get raises)
\*   syntax "garbage": not JSON at all (request.get_json raises)
BodyText ==
  << [syntax |-> "object",  payment_status |-> "finished", order_id |-> "o1"],
     [syntax |-> "object",  payment_status |-> "finished", order_id |-> "o2"],
     [syntax |-> "object",  payment_status |-> "finished", order_id |-> "zz"],
     [syntax |-> "object",  payment_status |-> "waiting",  order_id |-> "o1"],
     [syntax |-> "object",  payment_status |-> "None",     order_id |-> "None"],
     [syntax |-> "array",   payment_status |-> "None",     order_id |-> "None"],
     [syntax |-> "garbage", payment_status |-> "None",     order_id |-> "None"] >>

RawBodies == 1..Len(BodyText)

\* ------------------------------------------------------------ signatures
IPN_SECRET_KEY == "k1"
OtherKey == "k2"

HexDigits == <<"0","1","2","3","4","5","6","7","8","9","a","b","c","d","e","f">>

\* hexdigest(): two lowercase hex digits of a one-byte digest.
HexDigest(n) == << HexDigits[(n \div 16) + 1], HexDigits[(n % 16) + 1] >>

KeyCode(k) == IF k = IPN_SECRET_KEY THEN 3 ELSE 5

\* hmac.new(key, msg, sha512).hexdigest(): a keyed digest of the raw bytes,
\* scaled down to one byte and free of collisions on the bodies and keys
\* of the model (the collision resistance HMAC-SHA512 is used for).
HmacHex(key, body) == HexDigest((KeyCode(key) * 97 + body * 29 + 11) % 256)

UpperChar(c) ==
  CASE c = "a" -> "A" [] c = "b" -> "B" [] c = "c" -> "C"
    [] c = "d" -> "D" [] c = "e" -> "E" [] c = "f" -> "F"
    [] OTHER -> c

\* The same hex digits in upper case (what a client sends that formats the
\* digest differently).
Upper(s) == [i \in 1..Len(s) |-> UpperChar(s[i])]

\* Another raw body than b (the body was changed after it was signed).
OtherBody(b) == (b % Len(BodyText)) + 1

\* The header values a sender may put beside raw body b: the right digest,
\* its upper-case spelling, the digest under another secret and the digest
\* of another body.
HeaderValues(b) ==
  { HmacHex(IPN_SECRET_KEY, b), Upper(HmacHex(IPN_SECRET_KEY, b)),
    HmacHex(OtherKey, b), HmacHex(IPN_SECRET_KEY, OtherBody(b)) }

\* An HTTP request to /nowpayments-ipn: sig is None when the
\* x-nowpayments-sig header is absent and Some(value) otherwise.
Requests ==
  UNION { { [sig |-> h, body |-> b] :
              h \in {None} \cup { Some(v) : v \in HeaderValues(b) } } :
          b \in RawBodies }

NoRequest == [sig |-> None, body |-> 0]

\* ----------------------------------------------------------------- state
VARIABLES
  ledger,      \* the transactions table: order_id -> row
  clock,       \* CURRENT_TIMESTAMP, in seconds
  ipn,         \* per IPN thread: position, request, row read
  chat,        \* the chat handler in progress
  response,    \* the last HTTP response sent by /nowpayments-ipn, with its request
  prompts,     \* per order: chat ids the payment-confirmed prompt was sent to
  driverCalls, \* per order: invocations of purchase_stars_on_fragments
  delivered    \* per order: Stars the driver delivered

vars == <<ledger, clock, ipn, chat, response, prompts, driverCalls, delivered>>

\* ---------------------------------------------------------------- ledger
\* CREATE TABLE transactions (src/Stars.py:78-89): recipient_username is
\* NULL and fulfilled_amount is 0 until set.
NewRow(user_id, invoice_id, buy_amount, status, now) ==
  [ user_id            |-> user_id,
    recipient_username |-> None,
    invoice_id         |-> invoice_id,
    buy_amount         |-> buy_amount,
    fulfilled_amount   |-> 0,
    status             |-> status,
    created_at         |-> now ]

\* The INSERT of a table without a key: it never fails.
InsertFails_NoKey(l, order_id) == FALSE

\* INSERT INTO transactions: order_id is the PRIMARY KEY, so the insert of
\* an order_id that is there raises and changes nothing.
InsertFails(l, order_id) == order_id \in DOMAIN l

add_transaction(l, order_id, user_id, invoice_id, buy_amount, status, now) ==
  [ o \in DOMAIN l \cup {order_id} |->
      IF o = order_id THEN NewRow(user_id, invoice_id, buy_amount, status, now)
      ELSE l[o] ]

\* SELECT * FROM transactions WHERE order_id = ?  (None when no row)
get_transaction_by_order_id(l, order_id) ==
  IF order_id \in DOMAIN l THEN Some(l[order_id]) ELSE None

\* The query without its status condition: the latest row of the user.
get_latest_paid_transaction_AnyStatus(l, user_id) ==
  LET rows == { o \in DOMAIN l : l[o].user_id = user_id }
  IN  { o \in rows : \A o2 \in rows : l[o2].created_at <= l[o].created_at }

\* The query with ORDER BY created_at ASC: the oldest paid row.
get_latest_paid_transaction_Oldest(l, user_id) ==
  LET paid == { o \in DOMAIN l : l[o].user_id = user_id /\ l[o].status = "paid" }
  IN  { o \in paid : \A o2 \in paid : l[o2].created_at >= l[o].created_at }

\* SELECT ... WHERE user_id = ? AND status = 'paid' ORDER BY created_at DESC
\* LIMIT 1: the order ids the query may return (several when the latest
\* created_at is shared, none when the user has no paid row).
get_latest_paid_transaction(l, user_id) ==
  LET paid == { o \in DOMAIN l : l[o].user_id = user_id /\ l[o].status = "paid" }
  IN  { o \in paid : \A o2 \in paid : l[o2].created_at <= l[o].created_at }

\* The UPDATE without its WHERE clause: every row gets the status.
update_transaction_status_NoWhere(l, order_id, status) ==
  [ o \in DOMAIN l |-> [l[o] EXCEPT !.status = status] ]

\* UPDATE transactions SET status = ? WHERE order_id = ?
update_transaction_status(l, order_id, status) ==
  [ o \in DOMAIN l |-> IF o = order_id THEN [l[o] EXCEPT !.status = status] ELSE l[o] ]

\* The UPDATE with buy_amount in its SET list as well.
update_transaction_fulfillment_SetsBuyAmount(l, order_id, username, fulfilled_amount, new_status) ==
  [ o \in DOMAIN l |->
      IF o = order_id
      THEN [l[o] EXCEPT !.recipient_username = Some(username),
                        !.fulfilled_amount = fulfilled_amount,
                        !.buy_amount = fulfilled_amount,
                        !.status = new_status]
      ELSE l[o] ]

\* UPDATE transactions SET recipient_username = ?, fulfilled_amount = ?,
\* status = ? WHERE order_id = ?
update_transaction_fulfillment(l, order_id, username, fulfilled_amount, new_status) ==
  [ o \in DOMAIN l |->
      IF o = order_id
      THEN [l[o] EXCEPT !.recipient_username = Some(username),
                        !.fulfilled_amount = fulfilled_amount,
                        !.status = new_status]
      ELSE l[o] ]

\* --------------------------------------------------- webhook: decisions
\* 'x-nowpayments-sig' not in request.headers
HeaderMissing(r) == r.sig = None

\* The comparison made case-insensitive.
SignatureMismatch_IgnoreCase(r) ==
  Upper(HmacHex(IPN_SECRET_KEY, r.body)) # Upper(r.sig[1])

\* signature != request.headers['x-nowpayments-sig']: Python string
\* inequality of the computed lowercase hex digest and the header value.
SignatureMismatch(r) == HmacHex(IPN_SECRET_KEY, r.body) # r.sig[1]

\* request.get_json(): the parsed body; raises BadRequest on a body that
\* is no JSON.
JsonFails(body) == BodyText[body].syntax = "garbage"

get_json(body) == BodyText[body]

\* data.get(...): a JSON value that is no object has no get (AttributeError).
GetFails(data) == data.syntax # "object"

\* except Exception as e: logger.error(...); abort(500).  Every exception
\* raised inside the try block ends here, the HTTPException of abort(401)
\* and the BadRequest of get_json included (both derive from Exception).
ExceptHandler(raised) == 500

\* The header check moved into the try block: a missing header raises
\* there and is answered by the except clause.
IpnEarlyStatus_HeaderInTry(r) ==
  IF HeaderMissing(r) THEN ExceptHandler("KeyError")
  ELSE IF SignatureMismatch(r) THEN ExceptHandler("Unauthorized")
  ELSE IF JsonFails(r.body) THEN ExceptHandler("BadRequest")
  ELSE IF GetFails(get_json(r.body)) THEN ExceptHandler("AttributeError")
  ELSE IF get_json(r.body).payment_status = "finished" THEN 0
  ELSE 200

\* The HTTP status lines 365-375 answer request r with before any ledger
\* access, 0 when the handler goes on to read the ledger.
IpnEarlyStatus(r) ==
  IF HeaderMissing(r) THEN 400
  ELSE IF SignatureMismatch(r) THEN ExceptHandler("Unauthorized")
  ELSE IF JsonFails(r.body) THEN ExceptHandler("BadRequest")
  ELSE IF GetFails(get_json(r.body)) THEN ExceptHandler("AttributeError")
  ELSE IF get_json(r.body).payment_status = "finished" THEN 0
  ELSE 200

\* The guard without its status test.
GuardPending_AnyStatus(tx) == tx # None

\* if transaction and transaction['status'] == 'pending'
GuardPending(tx) == tx # None /\ tx[1].status = "pending"

\* ------------------------------------------------------ chat: decisions
\* str.lstrip('@'): every leading '@' is removed.
RECURSIVE lstrip(_)
lstrip(text) ==
  IF text # <<>> /\ Head(text) = "@" THEN lstrip(Tail(text)) ELSE text

\* Message texts (filters.TEXT: never empty).
Texts == { <<"a">>, <<"@", "a">>, <<"@", "@", "b">> }

\* max in place of min.
StarsToBuy_Max(buy_amount, available_stars) ==
  IF buy_amount < available_stars THEN available_stars ELSE buy_amount

\* calculate_available_stars_to_buy(): the source returns one constant; the
\* model draws the supply from Supplies to cover what a real balance gives.
\* min(transaction['buy_amount'], available_stars)
StarsToBuy(buy_amount, available_stars) ==
  IF buy_amount < available_stars THEN buy_amount ELSE available_stars

\* if stars_to_buy < transaction['buy_amount']: partial, else complete
NewStatus(stars_to_buy, buy_amount) ==
  IF stars_to_buy < buy_amount THEN "partially_completed" ELSE "completed"

\* What purchase_stars_on_fragments can do: return True, return False
\* (credentials unset, or an exception inside its try block), or raise
\* (starting the browser, save_screenshot or quit failing).
DriverOutcomes == {"True", "False", "raise"}

\* ------------------------------------------------------------------ Init
IpnIdle == [pc |-> "idle", req |-> NoRequest, order_id |-> "None", tx |-> None]

ChatIdle == [pc |-> "idle", user_id |-> 0, username |-> None,
             order_id |-> "None", tx |-> None, stars_to_buy |-> 0]

NoResponse == [req |-> NoRequest, status |-> 0]

\* After setup_database(): an empty table, nothing in progress.
Init ==
  /\ ledger = << >>
  /\ clock = 0
  /\ ipn = [t \in IpnThreads |-> IpnIdle]
  /\ chat = ChatIdle
  /\ response = NoResponse
  /\ prompts = [o \in OrderIds |-> << >>]
  /\ driverCalls = [o \in OrderIds |-> 0]
  /\ delivered = [o \in OrderIds |-> 0]

\* ------------------------------------------------------- order creation
\* The wall clock advances.
Tick ==
  /\ clock < MaxClock
  /\ clock' = clock + 1
  /\ UNCHANGED <<ledger, ipn, chat, response, prompts, driverCalls, delivered>>

\* get_payment_method: add_transaction(order_id, user, invoice_id,
\* buy_amount, 'pending') after the invoice was created.  buy_amount is
\* positive (buy_stars_amount rejects amount <= 0).
CreateOrder(order_id, user_id, invoice_id, buy_amount) ==
  /\ chat.pc = "idle"
  /\ ~InsertFails(ledger, order_id)
  /\ ledger' = add_transaction(ledger, order_id, user_id, invoice_id,
                               buy_amount, "pending", clock)
  /\ UNCHANGED <<clock, ipn, chat, response, prompts, driverCalls, delivered>>

\* The same call with an order_id that is in the table: sqlite3 raises
\* IntegrityError and the table stays as it was.
CreateOrderFails(order_id, user_id, invoice_id, buy_amount) ==
  /\ chat.pc = "idle"
  /\ InsertFails(ledger, order_id)
  /\ UNCHANGED vars

\* --------------------------------------------------- webhook: the steps
\* nowpayments_ipn, lines 365-375: header, signature, JSON, payment_status.
\* A request that is answered here touches no shared state.
IpnReceive(t, r) ==
  /\ ipn[t].pc = "idle"
  /\ IF IpnEarlyStatus(r) # 0
     THEN /\ response' = [req |-> r, status |-> IpnEarlyStatus(r)]
          /\ UNCHANGED ipn
     ELSE /\ ipn' = [ipn EXCEPT ![t] = [pc |-> "select", req |-> r,
                                       order_id |-> get_json(r.body).order_id,
                                       tx |-> None]]
          /\ UNCHANGED response
  /\ UNCHANGED <<ledger, clock, chat, prompts, driverCalls, delivered>>

\* line 376-377: transaction = get_transaction_by_order_id(order_id) and
\* the guard on it.
IpnSelect(t) ==
  /\ ipn[t].pc = "select"
  /\ LET tx == get_transaction_by_order_id(ledger, ipn[t].order_id)
     IN  IF GuardPending(tx)
         THEN /\ ipn' = [ipn EXCEPT ![t].pc = "update", ![t].tx = tx]
              /\ UNCHANGED response
         ELSE /\ ipn' = [ipn EXCEPT ![t] = IpnIdle]
              /\ response' = [req |-> ipn[t].req, status |-> 200]
  /\ UNCHANGED <<ledger, clock, chat, prompts, driverCalls, delivered>>

\* line 378: update_transaction_status(order_id, 'paid')
IpnUpdate(t) ==
  /\ ipn[t].pc = "update"
  /\ ledger' = update_transaction_status(ledger, ipn[t].order_id, "paid")
  /\ ipn' = [ipn EXCEPT ![t].pc = "notify"]
  /\ UNCHANGED <<clock, chat, response, prompts, driverCalls, delivered>>

\* lines 379-381, 385: the prompt goes to transaction['user_id'] and the
\* request is answered "OK".
IpnNotify(t) ==
  /\ ipn[t].pc = "notify"
  /\ prompts' = [prompts EXCEPT ![ipn[t].order_id] = Append(@, ipn[t].tx[1].user_id)]
  /\ response' = [req |-> ipn[t].req, status |-> 200]
  /\ ipn' = [ipn EXCEPT ![t] = IpnIdle]
  /\ UNCHANGED <<ledger, clock, chat, driverCalls, delivered>>

\* lines 381-384: bot.send_message raises (network, blocked bot); no
\* prompt is sent and the except clause answers.
IpnNotifyFails(t) ==
  /\ ipn[t].pc = "notify"
  /\ response' = [req |-> ipn[t].req, status |-> ExceptHandler("TelegramError")]
  /\ ipn' = [ipn EXCEPT ![t] = IpnIdle]
  /\ UNCHANGED <<ledger, clock, chat, prompts, driverCalls, delivered>>

\* ------------------------------------------------------ chat: the steps
\* get_recipient_username, lines 247-255: no paid transaction, return.
ChatIgnored(user_id, text) ==
  /\ chat.pc = "idle"
  /\ get_latest_paid_transaction(ledger, user_id) = {}
  /\ UNCHANGED vars

\* lines 247-258: the latest paid transaction of the sender is read.
ChatSelect(user_id, text) ==
  /\ chat.pc = "idle"
  /\ \E o \in get_latest_paid_transaction(ledger, user_id) :
       chat' = [pc |-> "mark", user_id |-> user_id, username |-> Some(lstrip(text)),
                order_id |-> o, tx |-> Some(ledger[o]), stars_to_buy |-> 0]
  /\ UNCHANGED <<ledger, clock, ipn, response, prompts, driverCalls, delivered>>

\* line 261: update_transaction_status(order_id, 'processing')
ChatMark ==
  /\ chat.pc = "mark"
  /\ ledger' = update_transaction_status(ledger, chat.order_id, "processing")
  /\ chat' = [chat EXCEPT !.pc = "reply"]
  /\ UNCHANGED <<clock, ipn, response, prompts, driverCalls, delivered>>

\* line 263: reply_text("Thank you. Processing your order...")
ChatReply ==
  /\ chat.pc = "reply"
  /\ chat' = [chat EXCEPT !.pc = "purchase"]
  /\ UNCHANGED <<ledger, clock, ipn, response, prompts, driverCalls, delivered>>

\* A reply_text that raises ends the handler where it is (the Application
\* logs the exception and takes the next update).
ChatReplyFails ==
  /\ chat.pc \in {"reply", "report"}
  /\ chat' = ChatIdle
  /\ UNCHANGED <<ledger, clock, ipn, response, prompts, driverCalls, delivered>>

\* lines 266-269: the supply, stars_to_buy and the driver.
ChatPurchase(available_stars, outcome) ==
  /\ chat.pc = "purchase"
  /\ LET stars == StarsToBuy(chat.tx[1].buy_amount, available_stars)
     IN  /\ driverCalls' = [driverCalls EXCEPT ![chat.order_id] = @ + 1]
         /\ delivered' = [delivered EXCEPT ![chat.order_id] =
                            IF outcome = "True" THEN @ + stars ELSE @]
         /\ chat' = CASE outcome = "True"  -> [chat EXCEPT !.pc = "report", !.stars_to_buy = stars]
                      [] outcome = "False" -> [chat EXCEPT !.pc = "failed", !.stars_to_buy = stars]
                      [] OTHER             -> ChatIdle
  /\ UNCHANGED <<ledger, clock, ipn, response, prompts>>

\* lines 272-279: new_status is chosen and the success reply is sent.
ChatReport ==
  /\ chat.pc = "report"
  /\ chat' = [chat EXCEPT !.pc = "fulfil"]
  /\ UNCHANGED <<ledger, clock, ipn, response, prompts, driverCalls, delivered>>

\* line 281: update_transaction_fulfillment(...)
ChatFulfil ==
  /\ chat.pc = "fulfil"
  /\ ledger' = update_transaction_fulfillment(
                 ledger, chat.order_id, chat.username[1], chat.stars_to_buy,
                 NewStatus(chat.stars_to_buy, chat.tx[1].buy_amount))
  /\ chat' = ChatIdle
  /\ UNCHANGED <<clock, ipn, response, prompts, driverCalls, delivered>>

\* lines 284-285: update_transaction_status(order_id, 'failed'), then the
\* error reply, which ends the handler whether it is sent or raises.
ChatFailed ==
  /\ chat.pc = "failed"
  /\ ledger' = update_transaction_status(ledger, chat.order_id, "failed")
  /\ chat' = ChatIdle
  /\ UNCHANGED <<clock, ipn, response, prompts, driverCalls, delivered>>

\* -------------------------------------------------------- specification
\* The inputs a specification draws: E.creates (order_id, user_id,
\* invoice_id, buy_amount of the orders users place), E.requests (IPN
\* requests), E.senders and E.texts (chat messages), E.supplies and
\* E.outcomes (what the supply function and the driver return).
IpnStep(t, E) ==
  \/ \E r \in E.requests : IpnReceive(t, r)
  \/ IpnSelect(t)
  \/ IpnUpdate(t)
  \/ IpnNotify(t)
  \/ IpnNotifyFails(t)

ChatStep(E) ==
  \/ \E u \in E.senders, text \in E.texts : ChatIgnored(u, text)
  \/ \E u \in E.senders, text \in E.texts : ChatSelect(u, text)
  \/ ChatMark
  \/ ChatReply
  \/ ChatReplyFails
  \/ \E a \in E.supplies, outcome \in E.outcomes : ChatPurchase(a, outcome)
  \/ ChatReport
  \/ ChatFulfil
  \/ ChatFailed

CreateStep(E) ==
  \/ \E c \in E.creates : CreateOrder(c[1], c[2], c[3], c[4])
  \/ \E c \in E.creates : CreateOrderFails(c[1], c[2], c[3], c[4])

Step(E) ==
  \/ CreateStep(E)
  \/ \E t \in IpnThreads : IpnStep(t, E)
  \/ ChatStep(E)

\* Handlers run one after another: a handler takes a step only when no
\* other handler is in progress.
IpnBusy(t) == ipn[t].pc # "idle"
ChatBusy == chat.pc # "idle"

SeqStep(E) ==
  \/ /\ ~ChatBusy /\ \A t \in IpnThreads : ~IpnBusy(t)
     /\ (Tick \/ CreateStep(E))
  \/ \E t \in IpnThreads :
       /\ ~ChatBusy /\ \A t2 \in IpnThreads \ {t} : ~IpnBusy(t2)
       /\ IpnStep(t, E)
  \/ /\ \A t \in IpnThreads : ~IpnBusy(t)
     /\ ChatStep(E)

\* Requests that carry the right signature.
SignedRequests == { r \in Requests : ~HeaderMissing(r) /\ ~SignatureMismatch(r) }

\* One order, duplicate 'finished' notifications for it and the same
\* notification signed with another secret, messages of its user and of
\* another one, every amount, supply and driver outcome.
RaceEnv ==
  [ requests |-> { r \in Requests :
                     /\ r.body = 1
                     /\ r.sig \in { Some(HmacHex(IPN_SECRET_KEY, 1)),
                                    Some(HmacHex(OtherKey, 1)) } },
    creates  |-> {"o1"} \X {7} \X InvoiceIds \X Amounts,
    senders  |-> UserIds,
    texts    |-> Texts,
    supplies |-> Supplies,
    outcomes |-> DriverOutcomes ]

\* Every request, two orders of two users.
WebhookEnv ==
  [ requests |-> Requests,
    creates  |-> { <<"o1", 7, "inv1", 1>>, <<"o2", 8, "inv1", 1>> } ]

\* Two orders of two users, one of whom answers the prompt.
TwoEnv ==
  [ requests |-> { r \in SignedRequests : r.body \in {1, 2} },
    creates  |-> { <<"o1", 7, "inv1", 1>>, <<"o2", 8, "inv1", 1>> },
    senders  |-> {7},
    texts    |-> { <<"@", "a">> },
    supplies |-> {1},
    outcomes |-> {"True", "False"} ]

\* Every signed request, two orders of two users, one handler at a time.
SeqEnv ==
  [ requests |-> SignedRequests,
    creates  |-> OrderIds \X UserIds \X InvoiceIds \X {1},
    senders  |-> UserIds,
    texts    |-> { <<"@", "a">> },
    supplies |-> {0, 1},
    outcomes |-> DriverOutcomes ]

Next == Step(RaceEnv)

Spec == Init /\ [][Next]_vars

\* The web server process on its own (src/wsgi.py serves flask_app alone;
\* the chat handlers run where main() polls) beside the creation of orders.
NextWebhook ==
  \/ CreateStep(WebhookEnv)
  \/ \E t \in IpnThreads : IpnStep(t, WebhookEnv)

SpecWebhook == Init /\ [][NextWebhook]_vars

NextTwo == Step(TwoEnv)

SpecTwo == Init /\ [][NextTwo]_vars

NextSeq == SeqStep(SeqEnv)

SpecSeq == Init /\ [][NextSeq]_vars

\* ================================================================ claims
Rows == DOMAIN ledger

\* The parsed body of the request IPN thread t is handling.
IpnData(t) == get_json(ipn[t].req.body)

\* Request r has no x-nowpayments-sig header.
NoHeader(r) == r.sig = None

\* Request r has the header and its value is, character for character,
\* the lowercase hex HMAC of the raw body under the secret.
HeaderIsDigest(r) == r.sig = Some(HmacHex(IPN_SECRET_KEY, r.body))

\* The raw body of request r is no JSON.
Unparseable(r) == BodyText[r.body].syntax = "garbage"

\* Thread t takes a step of its handler past the early answers.
IpnMoves(t) == ipn'[t] # ipn[t]

\* ----------------------------------------------------------------- C1
\* C1: with handlers run one after another, a correctly signed IPN changes
\* the ledger or sends a prompt only if its payment_status is 'finished'
\* and its order_id names a row that is 'pending'; then it sets that row to
\* 'paid' and sends the first and only prompt of that order.  An IPN for a
\* row that is not 'pending' leaves the ledger and the prompts as they are.
C1_SequentialIpnOnlyActsOnPending ==
  [][ \A t \in IpnThreads :
        (IpnMoves(t) /\ (ledger' # ledger \/ prompts' # prompts)) =>
          LET o == ipn[t].order_id IN
            /\ HeaderIsDigest(ipn[t].req)
            /\ IpnData(t).payment_status = "finished"
            /\ IpnData(t).order_id = o
            /\ o \in Rows
            /\ \/ /\ ledger[o].status = "pending"
                  /\ ledger' = [ledger EXCEPT ![o].status = "paid"]
                  /\ prompts' = prompts
               \/ /\ ipn[t].tx[1].status = "pending"
                  /\ ledger[o].status = "paid"
                  /\ ledger' = ledger
                  /\ prompts[o] = << >>
                  /\ prompts' = [prompts EXCEPT ![o] = <<ledger[o].user_id>>]
    ]_vars

\* A 'finished' IPN is being handled for an order that is past 'paid' and
\* was prompted once.
C1_Witness ==
  \E t \in IpnThreads :
    /\ ipn[t].pc = "select"
    /\ ipn[t].order_id \in Rows
    /\ ledger[ipn[t].order_id].status \in {"processing", "completed", "partially_completed", "failed"}
    /\ Len(prompts[ipn[t].order_id]) = 1

\* ----------------------------------------------------------------- C2
\* C2: in every interleaving of IPN threads and chat handlers the driver
\* purchase_stars_on_fragments is invoked at most once for each order.
C2_DriverAtMostOnce == \A o \in OrderIds : driverCalls[o] <= 1

\* ----------------------------------------------------------------- C3
\* C3: in every interleaving of 'finished' IPN deliveries for one order
\* the payment-confirmed prompt is sent at most once for that order.
C3_PromptAtMostOnce == \A o \in OrderIds : Len(prompts[o]) <= 1

\* ----------------------------------------------------------------- C4
\* The place of a status in the chain; the three terminal ones share the
\* last place.
Rank(status) ==
  CASE status = "pending" -> 0 [] status = "paid" -> 1
    [] status = "processing" -> 2 [] OTHER -> 3

\* C4: every change of an order's status moves it forward along
\* pending -> paid -> processing -> {completed, partially_completed,
\* failed}, and a terminal status is never replaced.
C4_StatusMovesForward ==
  [][ \A o \in Rows :
        ledger'[o].status # ledger[o].status =>
          Rank(ledger[o].status) < Rank(ledger'[o].status)
    ]_vars

\* ----------------------------------------------------------------- C5
\* C5: a 'finished' IPN that read its row as 'pending' goes on to set
\* exactly that row's status to 'paid' (no other row, no other field), and
\* the only prompt it sends goes to that row's user_id.
C5_PendingBecomesPaid ==
  [][ \A t \in IpnThreads :
        IpnMoves(t) =>
          LET o == ipn[t].order_id IN
            /\ (ipn[t].pc = "select" /\ o \in Rows /\ ledger[o].status = "pending")
                 => (ipn'[t].pc = "update" /\ ledger' = ledger /\ prompts' = prompts)
            /\ ipn[t].pc = "update"
                 => /\ o \in Rows
                    /\ ledger' = [ledger EXCEPT ![o].status = "paid"]
                    /\ ledger'[o].status = "paid"
                    /\ prompts' = prompts
                    /\ ipn'[t].pc = "notify"
            /\ ipn[t].pc = "notify"
                 => /\ ledger' = ledger
                    /\ \/ prompts' = [prompts EXCEPT ![o] = Append(@, ledger[o].user_id)]
                       \/ prompts' = prompts /\ response'.status = 500
    ]_vars

\* Order o1 was paid and its user prompted while o2 stayed as created.
C5_Witness ==
  /\ Rows = {"o1", "o2"}
  /\ ledger["o1"].status = "paid"
  /\ prompts["o1"] = <<ledger["o1"].user_id>>
  /\ ledger["o2"].status = "pending"
  /\ ledger["o2"].user_id # ledger["o1"].user_id
  /\ prompts["o2"] = << >>

\* ----------------------------------------------------------------- C6
\* C6: every ledger row has 0 <= fulfilled_amount <= buy_amount.
C6_FulfilledWithinBuyAmount ==
  \A o \in Rows :
    /\ 0 <= ledger[o].fulfilled_amount
    /\ ledger[o].fulfilled_amount <= ledger[o].buy_amount

\* A partial delivery was recorded, and a full one.
C6_Witness ==
  \E o \in Rows :
    /\ ledger[o].status = "partially_completed"
    /\ 0 < ledger[o].fulfilled_amount
    /\ ledger[o].fulfilled_amount < ledger[o].buy_amount

\* ----------------------------------------------------------------- C7
Answered == response # NoResponse

\* C7: a request whose x-nowpayments-sig header differs from the hex HMAC
\* of its raw body is answered with status 401.
C7_MismatchAnswered401 ==
  (Answered /\ ~NoHeader(response.req) /\ ~HeaderIsDigest(response.req))
    => response.status = 401

\* ----------------------------------------------------------------- C8
\* The step answers a request whose header is there and is not the digest.
AnswersMismatch ==
  /\ response' # response
  /\ ~NoHeader(response'.req)
  /\ ~HeaderIsDigest(response'.req)

\* C8: a request whose header value is not exactly the lowercase hex HMAC
\* of its raw body under the secret never gets past the signature check
\* (no handler in progress holds such a request), and answering it changes
\* no ledger row and sends no prompt.
C8_MismatchGatesProcessing ==
  /\ [](\A t \in IpnThreads :
          IpnBusy(t) => HeaderIsDigest(ipn[t].req))
  /\ [][ AnswersMismatch => UNCHANGED <<ledger, prompts, ipn, driverCalls, delivered>> ]_vars

\* A 'finished' notification for o1 signed in upper case was answered
\* while o1 is 'pending' and unprompted.
C8_Witness ==
  /\ Answered
  /\ response.req.body = 1
  /\ response.req.sig = Some(Upper(HmacHex(IPN_SECRET_KEY, 1)))
  /\ ~HeaderIsDigest(response.req)
  /\ response.status # 200
  /\ "o1" \in Rows
  /\ ledger["o1"].status = "pending"
  /\ prompts["o1"] = << >>

\* ----------------------------------------------------------------- C9
AnswersHeaderless ==
  /\ response' # response
  /\ NoHeader(response'.req)

\* C9: a request without the x-nowpayments-sig header is answered 400, and
\* answering it starts no handler, changes no ledger row and sends no prompt.
C9_MissingHeader400 ==
  /\ []((Answered /\ NoHeader(response.req)) => response.status = 400)
  /\ [](\A t \in IpnThreads : IpnBusy(t) => ~NoHeader(ipn[t].req))
  /\ [][ AnswersHeaderless => UNCHANGED <<ledger, prompts, ipn, driverCalls, delivered>> ]_vars

\* A headerless 'finished' notification for o1 was answered while o1 is
\* 'pending' and unprompted.
C9_Witness ==
  /\ Answered
  /\ NoHeader(response.req)
  /\ response.req.body = 1
  /\ response.status = 400
  /\ "o1" \in Rows
  /\ ledger["o1"].status = "pending"
  /\ prompts["o1"] = << >>

\* ---------------------------------------------------------------- C10
\* C10: a request whose signature matches its raw body and whose body is
\* no JSON is answered with status 400.
C10_UnparseableBody400 ==
  (Answered /\ HeaderIsDigest(response.req) /\ Unparseable(response.req))
    => response.status = 400

\* ---------------------------------------------------------------- C11
\* The body of request r parses to a JSON object.
JsonObject(r) == BodyText[r.body].syntax = "object"

\* C11: every request that has the header, a matching signature and a
\* JSON object as its body is answered 200, whatever payment_status and
\* order_id it carries and however the attempt to send the prompt ends.
C11_SignedJsonAnswered200 ==
  (Answered /\ HeaderIsDigest(response.req) /\ JsonObject(response.req))
    => response.status = 200

\* ---------------------------------------------------------------- C12
\* C12: when the driver reported success for d Stars, the handler ends
\* with the order's fulfilled_amount = d, its recipient_username = the
\* message text without leading '@', and its status 'partially_completed'
\* if d < buy_amount and 'completed' otherwise.
C12_DriverSuccessIsRecorded ==
  [][ (chat.pc \in {"report", "fulfil"} /\ chat'.pc = "idle") =>
        LET o == chat.order_id
            d == chat.stars_to_buy
        IN  /\ ledger'[o].fulfilled_amount = d
            /\ ledger'[o].recipient_username = chat.username
            /\ ledger'[o].status = IF d < ledger[o].buy_amount
                                   THEN "partially_completed" ELSE "completed"
    ]_vars

\* ---------------------------------------------------------------- C13
\* C13: when the driver raised or returned failure, the handler ends with
\* the order's status 'failed', its fulfilled_amount 0 and its
\* recipient_username unset.
C13_DriverFailureMarksFailed ==
  [][ (chat.pc \in {"purchase", "failed"} /\ chat'.pc = "idle") =>
        LET o == chat.order_id
        IN  /\ ledger'[o].status = "failed"
            /\ ledger'[o].fulfilled_amount = 0
            /\ ledger'[o].recipient_username = None
    ]_vars

\* ---------------------------------------------------------------- C14
\* No handler is in progress: the chat handler and every IPN thread are
\* between two requests.
Quiescent == ~ChatBusy /\ \A t \in IpnThreads : ~IpnBusy(t)

\* C14: no order stays 'processing': once the handlers have ended, every
\* order that was set to 'processing' has reached completed,
\* partially_completed or failed.
C14_NoOrderLeftProcessing ==
  Quiescent => \A o \in Rows : ledger[o].status # "processing"

\* ---------------------------------------------------------------- C15
\* C15: once an order's status is 'failed', no step of an IPN thread or of
\* a chat handler changes that status or invokes the driver for it.
C15_FailedIsTerminal ==
  [][ \A o \in Rows :
        ledger[o].status = "failed" =>
          /\ ledger'[o].status = "failed"
          /\ driverCalls'[o] = driverCalls[o]
    ]_vars

\* ---------------------------------------------------------------- C16
\* C16: a create adds one row, with status 'pending', fulfilled_amount 0
\* and no recipient_username, and leaves every other row as it is; a
\* create with an order_id that is there changes no row; no row goes away,
\* so there is one row per order_id in every state.
C16_CreateInsertsPendingRow ==
  [][ /\ Rows \subseteq DOMAIN ledger'
      /\ Cardinality(DOMAIN ledger' \ Rows) <= 1
      /\ \A o \in DOMAIN ledger' \ Rows :
           /\ ledger'[o].status = "pending"
           /\ ledger'[o].fulfilled_amount = 0
           /\ ledger'[o].recipient_username = None
      /\ (chat' = chat /\ ipn' = ipn) =>
           \A o \in Rows : ledger'[o] = ledger[o]
    ]_vars

\* Both orders are there and the first one is past 'pending', so that a
\* second create of it would show.
C16_Witness ==
  /\ Rows = OrderIds
  /\ ledger["o1"].status = "completed"
  /\ ledger["o2"].status = "pending"

\* ---------------------------------------------------------------- C17
\* The last answer is a 200 to a correctly signed 'finished' notification
\* for order o, and no IPN thread is still at work.
FinishedAccepted(o) ==
  /\ \A t \in IpnThreads : ~IpnBusy(t)
  /\ Answered
  /\ response.status = 200
  /\ HeaderIsDigest(response.req)
  /\ BodyText[response.req.body].payment_status = "finished"
  /\ BodyText[response.req.body].order_id = o

\* C17: an order that the webhook moved to 'paid' has its prompt delivered
\* by the time a 'finished' notification for it was answered 200, also
\* when that notification is a re-delivery after an error response.
C17_PaidOrderIsPrompted ==
  \A o \in Rows :
    (FinishedAccepted(o) /\ ledger[o].status # "pending") => prompts[o] # << >>

\* ---------------------------------------------------------------- C18
\* The 'paid' orders of user u.
PaidOf(u) == { o \in Rows : ledger[o].user_id = u /\ ledger[o].status = "paid" }

\* The order a step of the chat handler works on.
Handled == IF chat.pc = "idle" THEN chat'.order_id ELSE chat.order_id

\* C18: a text message is handled for one order: a 'paid' order of the
\* sender with no later created_at among the sender's 'paid' orders; every
\* step of the handler leaves all other rows and their driver counts as
\* they are and stays with that order; a sender without a 'paid' order
\* starts no handler, so no row changes and the driver is not invoked.
C18_OneMessageOneOrder ==
  [][ /\ (chat.pc = "idle" /\ chat'.pc # "idle") =>
           /\ chat'.order_id \in PaidOf(chat'.user_id)
           /\ \A o \in PaidOf(chat'.user_id) :
                ledger[o].created_at <= ledger[chat'.order_id].created_at
      /\ (chat.pc # "idle" /\ chat'.pc # "idle") => chat'.order_id = chat.order_id
      /\ chat' # chat =>
           \A o \in Rows \ {Handled} :
             ledger'[o] = ledger[o] /\ driverCalls'[o] = driverCalls[o]
      /\ driverCalls' # driverCalls => chat.pc = "purchase"
    ]_vars

\* The sender has two orders: the later one is being fulfilled and the
\* earlier one is still 'paid'.
C18_Witness ==
  /\ chat.pc = "fulfil"
  /\ \E o \in Rows \ {chat.order_id} :
       /\ ledger[o].user_id = chat.user_id
       /\ ledger[o].status = "paid"
       /\ ledger[o].created_at < ledger[chat.order_id].created_at
       /\ ledger[chat.order_id].status = "processing"

\* ---------------------------------------------------------------- C19
\* Thread t has accepted a correctly signed 'finished' notification for
\* order o and is about to record the payment.
AcceptsPayment(t, o) ==
  /\ ipn[t].pc = "update"
  /\ ipn[t].order_id = o
  /\ HeaderIsDigest(ipn[t].req)
  /\ BodyText[ipn[t].req.body].payment_status = "finished"
  /\ BodyText[ipn[t].req.body].order_id = o

\* C19: an order leaves 'pending' only by the step of an IPN thread that
\* accepted a correctly signed 'finished' notification for it; the driver
\* is invoked for an order only in the handler of a message of the order's
\* own user and only when the order has left 'pending'; an order that is
\* 'pending' has no driver invocation, no fulfilled amount and no chat
\* handler working on it.
C19_NoFulfilmentWithoutPayment ==
  /\ [](\A o \in Rows :
          ledger[o].status = "pending" =>
            /\ driverCalls[o] = 0
            /\ ledger[o].fulfilled_amount = 0
            /\ ~(ChatBusy /\ chat.order_id = o))
  /\ [][ \A o \in Rows :
           /\ (ledger[o].status = "pending" /\ ledger'[o].status # "pending") =>
                \E t \in IpnThreads : AcceptsPayment(t, o) /\ ipn'[t] # ipn[t]
           /\ driverCalls'[o] # driverCalls[o] =>
                /\ chat.pc = "purchase"
                /\ chat.order_id = o
                /\ chat.user_id = ledger[o].user_id
                /\ ledger[o].status # "pending"
       ]_vars

\* The driver was invoked for the order, and the notification signed with
\* another secret was the last one answered.
C19_Witness ==
  /\ driverCalls["o1"] = 1
  /\ Answered
  /\ ~HeaderIsDigest(response.req)
  /\ response.status # 200

\* ---------------------------------------------------------------- C20
\* C20: whenever no handler is in progress, each order's fulfilled_amount
\* is the total of Stars the driver delivered for it, and that total is
\* at most its buy_amount.
C20_LedgerAgreesWithDelivered ==
  Quiescent =>
    \A o \in Rows :
      /\ ledger[o].fulfilled_amount = delivered[o]
      /\ delivered[o] <= ledger[o].buy_amount

\* ---------------------------------------------------------------- C21
\* C21: in every state a 'completed' row has fulfilled_amount = buy_amount
\* and a recipient_username, a 'partially_completed' row has
\* fulfilled_amount < buy_amount and a recipient_username, and a row that
\* is 'pending', 'paid', 'processing' or 'failed' has fulfilled_amount 0.
C21_StatusAgreesWithFulfilled ==
  \A o \in Rows :
    CASE ledger[o].status = "completed" ->
           /\ ledger[o].fulfilled_amount = ledger[o].buy_amount
           /\ ledger[o].recipient_username # None
      [] ledger[o].status = "partially_completed" ->
           /\ ledger[o].fulfilled_amount < ledger[o].buy_amount
           /\ ledger[o].recipient_username # None
      [] OTHER -> ledger[o].fulfilled_amount = 0

\* ---------------------------------------------------------------- C22
\* C22: no step sets the status of a row that has left 'pending' back to
\* 'pending'.
C22_NeverPendingAgain ==
  [][ \A o \in Rows :
        ledger[o].status # "pending" => ledger'[o].status # "pending"
    ]_vars

\* A late IPN write has moved a fulfilled order back, to 'paid'.
C22_Witness ==
  /\ "o1" \in Rows
  /\ ledger["o1"].status = "paid"
  /\ ledger["o1"].fulfilled_amount > 0

\* ---------------------------------------------------------------- C23
\* C23: no step removes a row, and no step changes the user_id, invoice_id
\* or buy_amount of a row (order_id is the key the row is stored under);
\* what a step changes of a row is its status, fulfilled_amount and
\* recipient_username.
C23_IdentityFieldsNeverChange ==
  [][ /\ Rows \subseteq DOMAIN ledger'
      /\ \A o \in Rows :
           ledger'[o] = [ledger[o] EXCEPT
                           !.status = ledger'[o].status,
                           !.fulfilled_amount = ledger'[o].fulfilled_amount,
                           !.recipient_username = ledger'[o].recipient_username]
    ]_vars

\* An order of two Stars was fulfilled in part.
C23_Witness ==
  /\ "o1" \in Rows
  /\ ledger["o1"].status = "partially_completed"
  /\ ledger["o1"].buy_amount = 2
  /\ ledger["o1"].fulfilled_amount = 1
  /\ ledger["o1"].recipient_username # None

====
